---- MODULE Spec2Model ----
(***************************************************************************)
(* Model of the media-gallery custom element (MediaGallery).               *)
(*                                                                         *)
(* Two revisions of the element are modelled:                              *)
(*   policy "A"  src/unnamed/part_000        (synchronous token match)     *)
(*   policy "B"  src/assets/media-gallery.js (deferred DOM-label match)    *)
(*                                                                         *)
(* JavaScript strings are sequences of one-character strings, so that      *)
(* trim, toLowerCase, split and includes are computed and not assumed.     *)
(* JavaScript values that may be null/undefined are records with a tag.    *)
(***************************************************************************)
EXTENDS Integers, Sequences, FiniteSets, TLC

VARIABLES
  policy,        \* which revision of filterSlidesByVariant is installed
  attached,      \* the element is connected to the document
  aborted,       \* this.#controller.signal.aborted
  onVariant,     \* #handleVariantUpdate is registered on the section/dialog
  onZoom,        \* #handleZoomMediaSelected is registered on the zoom dialog
  hasTarget,     \* this.closest('.shopify-section, dialog') is not null
  hasZoom,       \* this.refs.zoomDialogComponent is present
  hasSlideshow,  \* the slideshow-component / refs.slideshow is present
  winVariant,    \* window.ProductData.selected_or_first_available_variant
  dataAttr,      \* this.dataset.selectedVariant (text)
  colorEl,       \* text of the selected-option label node, or null
  display,       \* style.display of each .product-media-container
  thumbDisplay,  \* style.display of each thumbnail button
  thumbSelected, \* aria-selected of each thumbnail button
  timers,        \* pending setTimeout callbacks (captured variantResource)
  trace,         \* what the last operation did (calls it made)
  xres,          \* argument of a stand-alone extractVariantValues call
  xout,          \* its result
  xpc            \* "call" before the call, "done" after, "idle" otherwise

vars == <<policy, attached, aborted, onVariant, onZoom, hasTarget, hasZoom,
          hasSlideshow, winVariant, dataAttr, colorEl, display, thumbDisplay,
          thumbSelected, timers, trace, xres, xout, xpc>>

galleryVars == <<policy, attached, aborted, onVariant, onZoom, hasTarget,
                 hasZoom, hasSlideshow, winVariant, dataAttr, colorEl,
                 display, thumbDisplay, thumbSelected, timers, trace>>

----------------------------------------------------------------------------
(* Bounds *)

\* longest selected_options array drawn for a stand-alone extraction
MaxSel == 2

\* most deferred filter callbacks pending at once
MaxTimers == 1

----------------------------------------------------------------------------
(* JavaScript strings *)

Blank == " "

\* String.prototype.toLowerCase, on the letters that occur
ToLowerChar(c) ==
  CASE c = "R" -> "r"
    [] c = "B" -> "b"
    [] c = "L" -> "l"
    [] c = "S" -> "s"
    [] c = "G" -> "g"
    [] OTHER -> c

ToLowerCase(s) == [i \in 1..Len(s) |-> ToLowerChar(s[i])]

RECURSIVE TrimStart(_)
TrimStart(s) ==
  IF s # <<>> /\ Head(s) = Blank THEN TrimStart(Tail(s)) ELSE s

RECURSIVE TrimEnd(_)
TrimEnd(s) ==
  IF s # <<>> /\ s[Len(s)] = Blank
  THEN TrimEnd(SubSeq(s, 1, Len(s) - 1))
  ELSE s

\* String.prototype.trim
Trim(s) == TrimEnd(TrimStart(s))

\* needle occurs in hay starting at position i
OccursAt(hay, needle, i) ==
  /\ i + Len(needle) - 1 <= Len(hay)
  /\ \A k \in 1..Len(needle) : hay[i + k - 1] = needle[k]

\* String.prototype.includes
Includes(hay, needle) ==
  \E i \in 1..(Len(hay) + 1) : OccursAt(hay, needle, i)

\* the separator of String(res.title).split(' / ')
TitleSep == <<" ", "/", " ">>

\* String.prototype.split(' / ')[0]: the text before the first separator
SplitFirst(s) ==
  IF Includes(s, TitleSep)
  THEN LET first == CHOOSE i \in 1..Len(s) :
                      /\ OccursAt(s, TitleSep, i)
                      /\ \A j \in 1..(i - 1) : ~OccursAt(s, TitleSep, j)
       IN SubSeq(s, 1, first - 1)
  ELSE s

\* Array.prototype.join(' ')
RECURSIVE JoinSp(_)
JoinSp(ts) ==
  IF ts = <<>> THEN <<>>
  ELSE IF Len(ts) = 1 THEN ts[1]
  ELSE ts[1] \o <<Blank>> \o JoinSp(Tail(ts))

----------------------------------------------------------------------------
(* JavaScript values *)

\* null / undefined / a missing property
Null == [t |-> "null", s |-> <<>>]

\* a string value
Str(s) == [t |-> "str", s |-> s]

\* JavaScript truthiness of a string-or-null value
Truthy(v) == v.t = "str" /\ v.s # <<>>

\* the texts that occur as option values, titles, labels and alt texts
sRed == <<"R", "e", "d">>
sBluePad == <<" ", "B", "l", "u", "e", " ">>
sLarge == <<"L", "a", "r", "g", "e">>
sBlank == <<" ">>
sEmpty == <<>>
sRedShirt == <<"R", "e", "d", " ", "S", "h", "i", "r", "t">>
sBlueShirt == <<"B", "l", "u", "e", " ", "S", "h", "i", "r", "t">>
sBlueLarge == <<"B", "l", "u", "e", " ", "/", " ", "L", "a", "r", "g", "e">>
sSepLarge == <<" ", "/", " ", "L", "a", "r", "g", "e">>
sRedSlashBlue == <<"R", "e", "d", "/", "B", "l", "u", "e">>

\* an entry of res.selected_options: null, or an object with a value
NullOpt == [present |-> FALSE, value |-> Null]
Opt(v) == [present |-> TRUE, value |-> v]

\* res.selected_options: not an array, or an array of entries
NotArray == [isArray |-> FALSE, items |-> <<>>]
Arr(items) == [isArray |-> TRUE, items |-> items]

\* a variant resource; nil is the null / absent resource
Res(so, o1, o2, o3, ti) ==
  [nil |-> FALSE, selected_options |-> so,
   option1 |-> o1, option2 |-> o2, option3 |-> o3, title |-> ti]

NoRes ==
  [nil |-> TRUE, selected_options |-> NotArray,
   option1 |-> Null, option2 |-> Null, option3 |-> Null, title |-> Null]

----------------------------------------------------------------------------
(* MediaGallery.extractVariantValues *)

\* res.selected_options.forEach(pushOpt)
RECURSIVE PushOpts(_)
PushOpts(items) ==
  IF items = <<>> THEN <<>>
  ELSE (IF Head(items).present /\ Truthy(Head(items).value)
        THEN <<Head(items).value.s>> ELSE <<>>)
       \o PushOpts(Tail(items))

\* ['option1', 'option2', 'option3'].forEach(...)
PushFlatMutNone(res) == <<>>

PushFlat(res) ==
  (IF Truthy(res.option1) THEN <<res.option1.s>> ELSE <<>>)
  \o (IF Truthy(res.option2) THEN <<res.option2.s>> ELSE <<>>)
  \o (IF Truthy(res.option3) THEN <<res.option3.s>> ELSE <<>>)

\* the values collected before the title fallback is considered
Collected(res) ==
  (IF res.selected_options.isArray
   THEN PushOpts(res.selected_options.items) ELSE <<>>)
  \o PushFlat(res)

\* if (values.length === 0 && res.title) values.push(titleParts[0])
WithTitleMutAlways(values, res) ==
  IF Truthy(res.title) THEN values \o <<SplitFirst(res.title.s)>> ELSE values

WithTitle(values, res) ==
  IF values = <<>> /\ Truthy(res.title)
  THEN <<SplitFirst(res.title.s)>>
  ELSE values

\* the loop that trims, lowercases and drops empty strings
RECURSIVE NormalizeAll(_)
NormalizeAll(values) ==
  IF values = <<>> THEN <<>>
  ELSE LET v == Head(values)
           s == ToLowerCase(Trim(v))
       IN (IF v # <<>> /\ s # <<>> THEN <<s>> ELSE <<>>)
          \o NormalizeAll(Tail(values))

extractVariantValues(res) ==
  IF res.nil THEN <<>>
  ELSE NormalizeAll(WithTitle(Collected(res), res))

----------------------------------------------------------------------------
(* Inputs of a stand-alone extraction *)

OptionTexts == {sRed, sBluePad, sBlank}
FlatValues == {Null, Str(sEmpty), Str(sLarge), Str(sBlank)}
TitleValues == {Null, Str(sBlueLarge), Str(sSepLarge), Str(sRedSlashBlue)}
OptEntries == {NullOpt, Opt(Null)} \cup {Opt(Str(s)) : s \in OptionTexts}

SeqsUpTo(S, n) == UNION {[1..k -> S] : k \in 0..n}

SelectedOptionsValues ==
  {NotArray} \cup {Arr(items) : items \in SeqsUpTo(OptEntries, MaxSel)}

Resources ==
  {NoRes} \cup
  {Res(so, o1, o2, o3, ti) :
     so \in SelectedOptionsValues,
     o1 \in FlatValues, o2 \in {Null, Str(sRed)}, o3 \in {Null, Str(sBluePad)},
     ti \in TitleValues}

----------------------------------------------------------------------------
(* The document the gallery lives in *)

\* a .product-media-container or thumbnail button: its img, if any, and the
\* img's alt attribute, if any
NoImg == [hasImg |-> FALSE, alt |-> Null]
Img(a) == [hasImg |-> TRUE, alt |-> a]

\* this.querySelectorAll('.product-media-container'), in document order
Containers ==
  <<Img(Str(sRedShirt)), Img(Str(sBlueShirt)), NoImg, Img(Null)>>

\* this.querySelectorAll('.slideshow-controls__thumbnails button')
Thumbs ==
  <<Img(Str(sBlueShirt)), Img(Str(sRedShirt)), NoImg>>

CIdx == 1..Len(Containers)
TIdx == 1..Len(Thumbs)

\* (img.getAttribute('alt') || '').toLowerCase().trim()
AltOf(el) ==
  Trim(ToLowerCase(IF Truthy(el.alt) THEN el.alt.s ELSE <<>>))

\* variant resources carried by events, the global and the data attribute
rRed == Res(Arr(<<Opt(Str(sRed))>>), Str(sLarge), Null, Null, Null)
rBlue == Res(NotArray, Null, Null, Null, Str(sBlueLarge))
rEmpty == Res(NotArray, Null, Null, Null, Str(sSepLarge))

EventResources == {NoRes, rRed, rBlue, rEmpty}
GlobalVariants == {NoRes, rBlue}

\* texts of the data-selected-variant attribute
AttrAbsent == ""
AttrMalformed == "{bad"
AttrNull == "null"
AttrRed == "{selected_options:[{value:Red}],option1:Large}"
AttrTexts == {AttrAbsent, AttrMalformed, AttrNull, AttrRed}

\* JSON.parse: ok is FALSE when it throws a SyntaxError
JSONParse(text) ==
  CASE text = AttrRed -> [ok |-> TRUE, value |-> rRed]
    [] text = AttrNull -> [ok |-> TRUE, value |-> NoRes]
    [] OTHER -> [ok |-> FALSE, value |-> NoRes]

\* texts of the selected-option label node (Null: no such node)
LabelValues == {Null, Str(sRed), Str(sBlank)}

----------------------------------------------------------------------------
(* What an operation did *)

Snapshot ==
  [display |-> display, thumbDisplay |-> thumbDisplay,
   thumbSelected |-> thumbSelected, timers |-> timers]

\* op: the operation; res / index: its argument; handled: a handler ran;
\* filterCalls: arguments of the filterSlidesByVariant calls it made;
\* selectCalls: arguments of the slideshow.select calls it made;
\* pass: a filtering pass ran to the point of touching elements, with the
\* tokens and active match string it used; replaced: the slideshow element
\* was replaced by its clone; threw: an exception escaped; before: element
\* state when the operation started
Did(op, res, index, handled, fCalls, sCalls, pass, tokens, active, replaced, threw) ==
  [op |-> op, res |-> res, index |-> index, handled |-> handled,
   filterCalls |-> fCalls, selectCalls |-> sCalls,
   pass |-> pass, tokens |-> tokens, active |-> active,
   replaced |-> replaced, threw |-> threw, before |-> Snapshot]

Idle(op) ==
  Did(op, NoRes, 0, FALSE, <<>>, <<>>, FALSE, <<>>, <<>>, FALSE, FALSE)

----------------------------------------------------------------------------
(* filterSlidesByVariant, policy A (synchronous) *)

\* alt.includes(variantString) || variantValues.some(val => alt.includes(val))
MatchesAMutJoinedOnly(alt, variantValues) ==
  Includes(alt, ToLowerCase(JoinSp(variantValues)))

MatchesA(alt, variantValues) ==
  \/ Includes(alt, ToLowerCase(JoinSp(variantValues)))
  \/ \E k \in 1..Len(variantValues) : Includes(alt, variantValues[k])

\* if (!variantValues.length) return;
ShouldFilterA(variantValues) == variantValues # <<>>

\* slideContainers.forEach(...) of policy A
ContainersAfterA(disp, variantValues) ==
  [c \in CIdx |->
     IF ~Containers[c].hasImg THEN disp[c]
     ELSE IF MatchesA(AltOf(Containers[c]), variantValues) THEN "" ELSE "none"]

\* the whole of policy A's filterSlidesByVariant
FilterA(res) ==
  LET variantValues == extractVariantValues(res) IN
  /\ display' = IF ShouldFilterA(variantValues)
                THEN ContainersAfterA(display, variantValues)
                ELSE display
  /\ UNCHANGED <<thumbDisplay, thumbSelected, timers>>

----------------------------------------------------------------------------
(* filterSlidesByVariant, policy B (deferred) *)

\* colorEl.textContent.trim().toLowerCase(), '' without a label node
ColorName(label) ==
  IF label.t = "str" THEN ToLowerCase(Trim(label.s)) ELSE <<>>

\* const activeColor = colorName || variantValues[0] || ''
ActiveColor(label, variantValues) ==
  IF ColorName(label) # <<>> THEN ColorName(label)
  ELSE IF variantValues # <<>> THEN variantValues[1]
  ELSE <<>>

\* if (!activeColor) return;
ShouldFilterBMutAlways(activeColor) == TRUE

ShouldFilterB(activeColor) == activeColor # <<>>

\* slideContainers.forEach(...) of policy B
ContainersAfterB(disp, activeColor) ==
  [c \in CIdx |->
     IF ~Containers[c].hasImg THEN disp[c]
     ELSE IF Includes(AltOf(Containers[c]), activeColor) THEN "" ELSE "none"]

\* thumbButtons.forEach(...): a button without img has alt ''
ThumbMatches(t, activeColor) == Includes(AltOf(Thumbs[t]), activeColor)

ThumbDisplayAfterB(activeColor) ==
  [t \in TIdx |-> IF ThumbMatches(t, activeColor) THEN "" ELSE "none"]

\* matches && index === 0 ? 'true' : 'false'
ThumbSelectedAfterB(activeColor) ==
  [t \in TIdx |->
     IF ThumbMatches(t, activeColor) /\ t = 1 THEN "true" ELSE "false"]

\* filterSlidesByVariant of policy B only arms the 400 ms timer
FilterB(res) ==
  /\ timers' = Append(timers, res)
  /\ UNCHANGED <<display, thumbDisplay, thumbSelected>>

\* the filterSlidesByVariant installed in this revision
filterSlidesByVariant(res) ==
  IF policy = "A" THEN FilterA(res) ELSE FilterB(res)

\* policy B may only arm a timer while fewer than MaxTimers are pending
CanFilter == policy = "A" \/ Len(timers) < MaxTimers

NoFilter == UNCHANGED <<display, thumbDisplay, thumbSelected, timers>>

\* trace of a call of filterSlidesByVariant made inside another operation
SyncPass(res) == policy = "A" /\ ShouldFilterA(extractVariantValues(res))
SyncTokens(res) == IF policy = "A" THEN extractVariantValues(res) ELSE <<>>

----------------------------------------------------------------------------
(* connectedCallback *)

\* target?.addEventListener(type, handler, { signal }): a listener passed an
\* already aborted signal is not added
AddEventListener(present, isAborted, registered) ==
  registered \/ (present /\ ~isAborted)

\* the initial variant resource: the global first, then the data attribute
ResolveInitialMutAttrFirst(global, attr) ==
  IF attr # "" /\ JSONParse(attr).ok /\ ~JSONParse(attr).value.nil
  THEN JSONParse(attr).value
  ELSE global

ResolveInitial(global, attr) ==
  IF ~global.nil THEN global
  ELSE IF attr # "" /\ JSONParse(attr).ok THEN JSONParse(attr).value
  ELSE NoRes

connectedCallback ==
  /\ xpc = "idle"
  /\ ~attached
  /\ LET variantResource == ResolveInitial(winVariant, dataAttr) IN
       /\ ~variantResource.nil => CanFilter
       /\ attached' = TRUE
       /\ onVariant' = AddEventListener(hasTarget, aborted, onVariant)
       /\ onZoom' = AddEventListener(hasZoom, aborted, onZoom)
       /\ IF ~variantResource.nil
          THEN /\ filterSlidesByVariant(variantResource)
               /\ trace' = Did("connect", variantResource, 0, FALSE,
                               <<variantResource>>, <<>>,
                               SyncPass(variantResource),
                               SyncTokens(variantResource), <<>>,
                               FALSE, FALSE)
          ELSE /\ NoFilter
               /\ trace' = Idle("connect")
  /\ UNCHANGED <<policy, aborted, hasTarget, hasZoom, hasSlideshow,
                 winVariant, dataAttr, colorEl, xres, xout, xpc>>

----------------------------------------------------------------------------
(* disconnectedCallback *)

\* this.#controller.abort() removes every listener added with its signal
AbortMutKeepListener(registered) == registered

Abort(registered) == FALSE

disconnectedCallback ==
  /\ xpc = "idle"
  /\ attached
  /\ attached' = FALSE
  /\ aborted' = TRUE
  /\ onVariant' = Abort(onVariant)
  /\ onZoom' = Abort(onZoom)
  /\ trace' = Idle("disconnect")
  /\ UNCHANGED <<policy, hasTarget, hasZoom, hasSlideshow, winVariant,
                 dataAttr, colorEl, display, thumbDisplay, thumbSelected,
                 timers, xres, xout, xpc>>

----------------------------------------------------------------------------
(* Events *)

\* a variant-update event is dispatched on the section/dialog ancestor;
\* #handleVariantUpdate runs if it is registered there
VariantUpdate(r) ==
  /\ xpc = "idle"
  /\ hasTarget
  /\ (onVariant /\ ~r.nil) => CanFilter
  /\ IF onVariant /\ ~r.nil
     THEN /\ filterSlidesByVariant(r)
          /\ trace' = Did("variantUpdate", r, 0, TRUE, <<r>>, <<>>,
                          SyncPass(r), SyncTokens(r), <<>>, FALSE, FALSE)
     ELSE /\ NoFilter
          /\ trace' = Did("variantUpdate", r, 0, onVariant, <<>>, <<>>,
                          FALSE, <<>>, <<>>, FALSE, FALSE)
  /\ UNCHANGED <<policy, attached, aborted, onVariant, onZoom, hasTarget,
                 hasZoom, hasSlideshow, winVariant, dataAttr, colorEl,
                 xres, xout, xpc>>

\* the arguments of this.slideshow?.select(index, undefined, {animate: false})
SelectArgs(index) ==
  [index |-> index, duration |-> "undefined", animate |-> FALSE]

SlideIndexes == {0, 1}

\* a zoom-media:selected event is dispatched on the zoom dialog;
\* #handleZoomMediaSelected runs if it is registered there
ZoomMediaSelected(i) ==
  /\ xpc = "idle"
  /\ hasZoom
  /\ trace' = Did("zoomSelected", NoRes, i, onZoom, <<>>,
                  IF onZoom /\ hasSlideshow THEN <<SelectArgs(i)>> ELSE <<>>,
                  FALSE, <<>>, <<>>, FALSE, FALSE)
  /\ UNCHANGED <<policy, attached, aborted, onVariant, onZoom, hasTarget,
                 hasZoom, hasSlideshow, winVariant, dataAttr, colorEl,
                 display, thumbDisplay, thumbSelected, timers,
                 xres, xout, xpc>>

----------------------------------------------------------------------------
(* The deferred callback of policy B *)

\* the body of the setTimeout callback; it does not look at whether the
\* element is still attached
TimerFire ==
  /\ xpc = "idle"
  /\ policy = "B"
  /\ timers # <<>>
  /\ LET variantResource == Head(timers)
         variantValues == extractVariantValues(variantResource)
         activeColor == ActiveColor(colorEl, variantValues)
     IN
       /\ timers' = Tail(timers)
       /\ IF ShouldFilterB(activeColor)
          THEN /\ display' = ContainersAfterB(display, activeColor)
               /\ thumbDisplay' = ThumbDisplayAfterB(activeColor)
               /\ thumbSelected' = ThumbSelectedAfterB(activeColor)
               /\ trace' = Did("timer", variantResource, 0, FALSE, <<>>,
                               <<>>, TRUE, variantValues, activeColor,
                               hasSlideshow, FALSE)
          ELSE /\ UNCHANGED <<display, thumbDisplay, thumbSelected>>
               /\ trace' = Did("timer", variantResource, 0, FALSE, <<>>,
                               <<>>, FALSE, variantValues, <<>>, FALSE,
                               FALSE)
  /\ UNCHANGED <<policy, attached, aborted, onVariant, onZoom, hasTarget,
                 hasZoom, hasSlideshow, winVariant, dataAttr, colorEl,
                 xres, xout, xpc>>

----------------------------------------------------------------------------
(* The environment *)

\* the page sets or clears window.ProductData
SetProductData(v) ==
  /\ xpc = "idle"
  /\ winVariant # v
  /\ winVariant' = v
  /\ trace' = Idle("env")
  /\ UNCHANGED <<policy, attached, aborted, onVariant, onZoom, hasTarget,
                 hasZoom, hasSlideshow, dataAttr, colorEl, display,
                 thumbDisplay, thumbSelected, timers, xres, xout, xpc>>

\* the page writes the data-selected-variant attribute
SetDataAttr(a) ==
  /\ xpc = "idle"
  /\ dataAttr # a
  /\ dataAttr' = a
  /\ trace' = Idle("env")
  /\ UNCHANGED <<policy, attached, aborted, onVariant, onZoom, hasTarget,
                 hasZoom, hasSlideshow, winVariant, colorEl, display,
                 thumbDisplay, thumbSelected, timers, xres, xout, xpc>>

\* the product form rewrites the selected-option label
SetColorLabel(l) ==
  /\ xpc = "idle"
  /\ colorEl # l
  /\ colorEl' = l
  /\ trace' = Idle("env")
  /\ UNCHANGED <<policy, attached, aborted, onVariant, onZoom, hasTarget,
                 hasZoom, hasSlideshow, winVariant, dataAttr, display,
                 thumbDisplay, thumbSelected, timers, xres, xout, xpc>>

----------------------------------------------------------------------------
(* A stand-alone call of the static extractVariantValues *)

Extract ==
  /\ xpc = "call"
  /\ xout' = extractVariantValues(xres)
  /\ xpc' = "done"
  /\ UNCHANGED <<xres, galleryVars>>

----------------------------------------------------------------------------
(* Specifications *)

InitialDisplays == {"", "none"}

\* a constructed, not yet connected element in a page
InitGallery ==
  /\ policy \in {"A", "B"}
  /\ attached = FALSE
  /\ aborted = FALSE
  /\ onVariant = FALSE
  /\ onZoom = FALSE
  /\ hasTarget \in BOOLEAN
  /\ hasZoom \in BOOLEAN
  /\ hasSlideshow \in BOOLEAN
  /\ winVariant \in GlobalVariants
  /\ dataAttr \in AttrTexts
  /\ colorEl \in LabelValues
  /\ \E d \in InitialDisplays :
       /\ display = [c \in CIdx |-> IF Containers[c].hasImg THEN "" ELSE d]
       /\ thumbDisplay = [t \in TIdx |-> IF Thumbs[t].hasImg THEN "" ELSE d]
  /\ thumbSelected = [t \in TIdx |-> IF t = 1 THEN "true" ELSE "false"]
  /\ timers = <<>>
  /\ trace = Idle("init")

Init ==
  /\ InitGallery
  /\ xres = NoRes
  /\ xout = <<>>
  /\ xpc = "idle"

Next ==
  \/ connectedCallback
  \/ disconnectedCallback
  \/ \E r \in EventResources : VariantUpdate(r)
  \/ \E i \in SlideIndexes : ZoomMediaSelected(i)
  \/ TimerFire
  \/ \E v \in GlobalVariants : SetProductData(v)
  \/ \E a \in AttrTexts : SetDataAttr(a)
  \/ \E l \in LabelValues : SetColorLabel(l)

Spec == Init /\ [][Next]_vars

\* extractVariantValues applied to every resource of the bounded set
InitExtract ==
  /\ policy = "A"
  /\ attached = FALSE
  /\ aborted = FALSE
  /\ onVariant = FALSE
  /\ onZoom = FALSE
  /\ hasTarget = FALSE
  /\ hasZoom = FALSE
  /\ hasSlideshow = FALSE
  /\ winVariant = NoRes
  /\ dataAttr = AttrAbsent
  /\ colorEl = Null
  /\ display = [c \in CIdx |-> ""]
  /\ thumbDisplay = [t \in TIdx |-> ""]
  /\ thumbSelected = [t \in TIdx |-> "false"]
  /\ timers = <<>>
  /\ trace = Idle("init")
  /\ xres \in Resources
  /\ xout = <<>>
  /\ xpc = "call"

NextExtract == Extract

SpecExtract == InitExtract /\ [][NextExtract]_vars

----------------------------------------------------------------------------
(* Vocabulary of the properties, written from the field values directly *)

UpperCaseLetters == {"R", "B", "L", "S", "G"}

\* a token as the properties describe it: trimmed, then lowercased
NormTok(s) == ToLowerCase(Trim(s))

\* non-empty, no leading or trailing blank, no upper-case letter
IsNormalToken(tok) ==
  /\ tok # <<>>
  /\ tok[1] # Blank
  /\ tok[Len(tok)] # Blank
  /\ \A i \in 1..Len(tok) : tok[i] \notin UpperCaseLetters

\* the truthy selected_options[].value texts of a resource, in order
IsTruthyOpt(o) == o.present /\ o.value.t = "str" /\ o.value.s # <<>>
SelectedTexts(res) ==
  IF res.selected_options.isArray
  THEN LET kept == SelectSeq(res.selected_options.items, IsTruthyOpt)
       IN [i \in 1..Len(kept) |-> kept[i].value.s]
  ELSE <<>>

\* the truthy option1, option2, option3 texts of a resource, in order
IsTruthyValue(v) == v.t = "str" /\ v.s # <<>>

FlatTexts(res) ==
  LET kept == SelectSeq(<<res.option1, res.option2, res.option3>>,
                        IsTruthyValue)
  IN [i \in 1..Len(kept) |-> kept[i].s]

\* every text normalized, none dropped
NormEach(texts) == [i \in 1..Len(texts) |-> NormTok(texts[i])]

IsNonEmpty(tok) == tok # <<>>

\* every text normalized, those that normalize to '' dropped
NormKept(texts) == SelectSeq(NormEach(texts), IsNonEmpty)

\* the title is what the result is taken from
UsesTitle(res) ==
  /\ ~res.nil
  /\ SelectedTexts(res) = <<>>
  /\ FlatTexts(res) = <<>>
  /\ IsTruthyValue(res.title)

\* nothing an operation could have changed in the elements did change
ElementsUntouched ==
  /\ display = trace.before.display
  /\ thumbDisplay = trace.before.thumbDisplay
  /\ thumbSelected = trace.before.thumbSelected

\* a filtering pass ran in the last operation, synchronously (policy A,
\* inside connectedCallback or the variant-update handler) or as the
\* deferred callback (policy B); PassResource is the resource it was given
SyncCall == policy = "A" /\ trace.filterCalls # <<>>
DeferredCall == trace.op = "timer"
PassResource == IF SyncCall THEN trace.filterCalls[1] ELSE trace.res

----------------------------------------------------------------------------
(* C1 *)

\* C1 (as stated): for a resource with at least one truthy
\* selected_options[].value, extractVariantValues returns exactly those
\* values, in order, trimmed and lowercased, and nothing else (option1,
\* option2, option3 and the title contribute no token).
C1_SelectedOnly ==
  (xpc = "done" /\ SelectedTexts(xres) # <<>>)
    => xout = NormEach(SelectedTexts(xres))

\* C1 (amended): for a resource with at least one truthy
\* selected_options[].value, extractVariantValues returns those values in
\* order, trimmed and lowercased, without the ones that are empty after
\* trimming, followed by the truthy option1, option2, option3 normalized
\* the same way; the title contributes no token.
C1_SelectedThenFlat ==
  (xpc = "done" /\ SelectedTexts(xres) # <<>>)
    => xout = NormKept(SelectedTexts(xres)) \o NormKept(FlatTexts(xres))

\* a resource with a selected value, a flat option and a title was extracted
C1_Witness ==
  /\ xpc = "done"
  /\ SelectedTexts(xres) # <<>>
  /\ FlatTexts(xres) # <<>>
  /\ IsTruthyValue(xres.title)
  /\ Len(xout) >= 2

----------------------------------------------------------------------------
(* C2 *)

\* C2 (as stated): the title is used if and only if no truthy selected
\* value and no truthy option1..3 was collected and the resource has a
\* title, and the result is then the single normalized first segment of
\* the title; otherwise the title contributes nothing; every returned
\* token is non-empty, trimmed and lowercase; a null resource yields [].
C2_TitleSingleToken ==
  xpc = "done" =>
    /\ UsesTitle(xres) => xout = <<NormTok(SplitFirst(xres.title.s))>>
    /\ (~xres.nil /\ ~UsesTitle(xres)) =>
         xout = NormKept(SelectedTexts(xres)) \o NormKept(FlatTexts(xres))
    /\ \A i \in 1..Len(xout) : IsNormalToken(xout[i])
    /\ xres.nil => xout = <<>>

\* C2 (amended): as stated, except that when the title is used the result
\* is the single normalized first segment only if that segment is not
\* empty after trimming, and is the empty list if it is.
C2_TitleFallback ==
  xpc = "done" =>
    /\ UsesTitle(xres) => xout = NormKept(<<SplitFirst(xres.title.s)>>)
    /\ (~xres.nil /\ ~UsesTitle(xres)) =>
         xout = NormKept(SelectedTexts(xres)) \o NormKept(FlatTexts(xres))
    /\ \A i \in 1..Len(xout) : IsNormalToken(xout[i])
    /\ xres.nil => xout = <<>>

\* the title "Blue / Large" alone was extracted to the one token "blue"
C2_Witness ==
  /\ xpc = "done"
  /\ UsesTitle(xres)
  /\ xres.title.s = sBlueLarge
  /\ xout = <<<<"b", "l", "u", "e">>>>

----------------------------------------------------------------------------
(* C3 *)

\* C3: in a filtering pass of either policy, a media container or a
\* thumbnail button that contains no image keeps the visibility it had
\* before the pass.
C3_NoImageKeepsVisibility ==
  ((SyncCall \/ DeferredCall) /\ trace.pass) =>
    /\ \A c \in CIdx :
         ~Containers[c].hasImg => display[c] = trace.before.display[c]
    /\ \A t \in TIdx :
         ~Thumbs[t].hasImg => thumbDisplay[t] = trace.before.thumbDisplay[t]

----------------------------------------------------------------------------
(* C4 *)

\* C4: while the element is detached, a variant-update event on the former
\* section/dialog ancestor or a zoom-selection event on the zoom dialog
\* runs neither handler: no element changes, no deferred filter is
\* scheduled, slideshow.select is not called, nothing is thrown; and both
\* subscriptions are gone together once the controller is aborted.
C4_NoHandlerAfterDetach ==
  /\ ~attached => (~onVariant /\ ~onZoom)
  /\ (~attached /\ trace.op \in {"variantUpdate", "zoomSelected"}) =>
       /\ ~trace.handled
       /\ trace.filterCalls = <<>>
       /\ trace.selectCalls = <<>>
       /\ ~trace.threw
       /\ ElementsUntouched
       /\ timers = trace.before.timers

\* a variant-update event carrying a resource was dispatched after detachment
C4_Witness ==
  /\ ~attached
  /\ aborted
  /\ trace.op = "variantUpdate"
  /\ ~trace.res.nil

----------------------------------------------------------------------------
(* C5 *)

\* C5: in every Attached state, also after a detach followed by a
\* re-attach, a variant-update event carrying a resource calls
\* filterSlidesByVariant with that resource, and a zoom-selection event
\* calls slideshow.select(index, undefined, {animate: false}).
C5_ListenersLiveWhileAttached ==
  /\ (attached /\ trace.op = "variantUpdate" /\ ~trace.res.nil) =>
       trace.filterCalls = <<trace.res>>
  /\ (attached /\ trace.op = "zoomSelected" /\ hasSlideshow) =>
       trace.selectCalls =
         <<[index |-> trace.index, duration |-> "undefined",
            animate |-> FALSE]>>

----------------------------------------------------------------------------
(* C6 *)

\* the resource the environment holds now, by the stated priority
ExpectedInitial ==
  IF ~winVariant.nil THEN winVariant
  ELSE IF dataAttr = AttrRed THEN rRed
  ELSE NoRes

\* C6: every connectedCallback, also after a detachment, resolves the
\* initial resource from the current environment (the global if truthy,
\* else the parsed data attribute, else none; a parse failure throws
\* nothing) and calls filterSlidesByVariant exactly once with it if there
\* is one and not at all otherwise.
C6_InitialResolvedAfresh ==
  trace.op = "connect" =>
    /\ trace.res = ExpectedInitial
    /\ trace.filterCalls =
         IF ExpectedInitial.nil THEN <<>> ELSE <<ExpectedInitial>>
    /\ ~trace.threw

\* a re-attachment that took its resource from the data attribute
C6_Witness ==
  /\ trace.op = "connect"
  /\ aborted
  /\ winVariant.nil
  /\ trace.filterCalls = <<rRed>>

----------------------------------------------------------------------------
(* C7 *)

\* C7 (as stated): in both policies, a filtering pass whose resource yields
\* no token changes no display and no aria-selected value and does not
\* replace the slideshow element, whatever the selected-option label holds.
C7_EmptyTokensNoOp ==
  ((SyncCall \/ DeferredCall) /\ extractVariantValues(PassResource) = <<>>)
    => (ElementsUntouched /\ ~trace.replaced)

\* C7 (amended): under policy A a pass whose resource yields no token
\* changes nothing; under policy B it changes nothing when, in addition,
\* no selected-option label with non-blank text is in the document when
\* the timer fires.
C7_NothingDerivableNoOp ==
  /\ (SyncCall /\ extractVariantValues(PassResource) = <<>>)
       => (ElementsUntouched /\ ~trace.replaced)
  /\ (DeferredCall /\ extractVariantValues(PassResource) = <<>>
        /\ (colorEl.t = "null" \/ Trim(colorEl.s) = <<>>))
       => (ElementsUntouched /\ ~trace.replaced)

\* the deferred callback ran with a token-less resource and no label text
\* while a container was hidden and a slideshow element was present
C7_Witness ==
  /\ DeferredCall
  /\ extractVariantValues(PassResource) = <<>>
  /\ (colorEl.t = "null" \/ Trim(colorEl.s) = <<>>)
  /\ hasSlideshow
  /\ \E c \in CIdx : Containers[c].hasImg /\ display[c] = "none"

----------------------------------------------------------------------------
(* C8 *)

\* the alt text as the property describes it
AltText(el) == NormTok(IF el.alt.t = "str" THEN el.alt.s ELSE <<>>)

\* C8: under policy A, after a call whose resource yields tokens, a
\* container with an image is shown if and only if its alt text contains
\* the space-joined tokens or at least one token, and hidden otherwise,
\* whatever its visibility was before the call.
C8_PolicyAMatch ==
  (SyncCall /\ extractVariantValues(PassResource) # <<>>) =>
    LET tokens == extractVariantValues(PassResource) IN
    \A c \in CIdx :
      Containers[c].hasImg =>
        display[c] =
          IF \/ Includes(AltText(Containers[c]), JoinSp(tokens))
             \/ \E k \in 1..Len(tokens) :
                  Includes(AltText(Containers[c]), tokens[k])
          THEN "" ELSE "none"

\* a container hidden by an earlier variant is shown again by this call
C8_Witness ==
  /\ SyncCall
  /\ extractVariantValues(PassResource) # <<>>
  /\ \E c \in CIdx :
       /\ Containers[c].hasImg
       /\ trace.before.display[c] = "none"
       /\ display[c] = ""
  /\ \E c \in CIdx : Containers[c].hasImg /\ display[c] = "none"

----------------------------------------------------------------------------
(* C9 *)

ThumbContains(t, color) == Includes(AltText(Thumbs[t]), color)

\* C9: under policy B, after a deferred pass with a non-empty active color
\* that some thumbnail's alt text contains, the first thumbnail in document
\* order whose alt text contains it has aria-selected 'true' and every
\* other thumbnail has aria-selected 'false'.
C9_FirstMatchingThumbSelected ==
  (DeferredCall /\ trace.pass /\ \E t \in TIdx : ThumbContains(t, trace.active))
    => \A t \in TIdx :
         thumbSelected[t] =
           IF /\ ThumbContains(t, trace.active)
              /\ \A u \in 1..(t - 1) : ~ThumbContains(u, trace.active)
           THEN "true" ELSE "false"

----------------------------------------------------------------------------
(* C10 *)

\* C10: under policy B, a deferred callback that fires while the element is
\* detached changes no display and no aria-selected value and does not
\* replace the slideshow element.
C10_DeferredNoOpWhenDetached ==
  (DeferredCall /\ ~attached) => (ElementsUntouched /\ ~trace.replaced)

====
